---- MODULE Spec2Model ----
(***************************************************************************)
(* A model of tinygen (src/tinygen.ts, lines 1-324): the page registry of  *)
(* the Generator, the page loader, the layout resolver, the virtual node   *)
(* renderer, the markdown/highlight adapter, the full build, the single    *)
(* page rebuild and the dev server's request handler.                      *)
(*                                                                         *)
(* JavaScript strings that the code takes apart (paths, routes, markdown   *)
(* output) are sequences of characters; markup is a sequence of tokens,    *)
(* each token a string.                                                    *)
(***************************************************************************)
EXTENDS Integers, Sequences, FiniteSets, TLC

\* ------------------------------------------------------------------------
\* String primitives of the JavaScript runtime, on sequences of characters
\* ------------------------------------------------------------------------

\* String.prototype.startsWith
StartsWith(s, p) == Len(p) <= Len(s) /\ SubSeq(s, 1, Len(p)) = p

\* String.prototype.endsWith
EndsWith(s, p) == Len(p) <= Len(s) /\ SubSeq(s, Len(s) - Len(p) + 1, Len(s)) = p

\* The least and the greatest member of a set of indices, 0 for the empty set.
Least(S) == IF S = {} THEN 0 ELSE CHOOSE i \in S : \A j \in S : i <= j
Greatest(S) == IF S = {} THEN 0 ELSE CHOOSE i \in S : \A j \in S : j <= i

\* The 1-based index of the first occurrence of p in s, 0 when there is none
\* (the empty pattern occurs at the start).
IndexOf(s, p) ==
  Least({i \in 1..(Len(s) - Len(p) + 1) : SubSeq(s, i, i + Len(p) - 1) = p})

\* The backtick character (the lexer of TLA+ has no backtick in strings).
Backtick == "BACKTICK"

\* The replacement patterns of String.prototype.replace with a string
\* pattern: $$ is a dollar sign, $& the match, $ with a backtick and $' what
\* precedes and follows the match; every other character stands for itself.
RECURSIVE ExpandReplacement(_, _, _, _)
ExpandReplacement(r, matched, before, after) ==
  IF r = <<>> THEN <<>>
  ELSE IF Len(r) >= 2 /\ r[1] = "$" /\ r[2] \in {"$", "&", Backtick, "'"}
       THEN (CASE r[2] = "$" -> <<"$">>
               [] r[2] = "&" -> matched
               [] r[2] = Backtick -> before
               [] OTHER      -> after)
            \o ExpandReplacement(SubSeq(r, 3, Len(r)), matched, before, after)
       ELSE <<r[1]>> \o ExpandReplacement(Tail(r), matched, before, after)

\* s with the occurrence of p at index i replaced by r, read as a
\* replacement pattern; s itself when i is 0.
ReplaceAt(s, p, r, i) ==
  IF i = 0 THEN s
  ELSE SubSeq(s, 1, i - 1)
         \o ExpandReplacement(r, p, SubSeq(s, 1, i - 1), SubSeq(s, i + Len(p), Len(s)))
         \o SubSeq(s, i + Len(p), Len(s))

\* s.replace(p, r) for a string pattern p: only the first occurrence is
\* replaced.
ReplaceFirst(s, p, r) == ReplaceAt(s, p, r, IndexOf(s, p))

\* s.replace(p, ""): nothing to expand in the replacement.
RemoveFirst(s, p) ==
  IF IndexOf(s, p) = 0 THEN s
  ELSE SubSeq(s, 1, IndexOf(s, p) - 1) \o SubSeq(s, IndexOf(s, p) + Len(p), Len(s))

\* ------------------------------------------------------------------------
\* std/path: basename, extname
\* ------------------------------------------------------------------------

LastIndexOfChar(s, c) == Greatest({i \in 1..Len(s) : s[i] = c})

basename(path) == SubSeq(path, LastIndexOfChar(path, "/") + 1, Len(path))

\* The extension of a file name: from its last dot, unless the name has no
\* dot or only a leading one.
ExtOfName(b) ==
  IF LastIndexOfChar(b, ".") <= 1 THEN <<>> ELSE SubSeq(b, LastIndexOfChar(b, "."), Len(b))

extname(path) == ExtOfName(basename(path))

\* ------------------------------------------------------------------------
\* The site: configuration and the paths of the model
\* ------------------------------------------------------------------------

\* Generator.srcDir for config.src: the real path of the source directory.
srcDir == <<"/", "s">>

\* Generator.destDir for config.dest: the default ./out, inside the source.
destDir == <<"/", "s", "/", "o">>

LayoutFile == <<"_", "l", "a", "y", "o", "u", "t", ".", "t", "s", "x">>

P_a_md     == <<"/", "s", "/", "a", ".", "m", "d">>
P_a_txt    == <<"/", "s", "/", "a", ".", "t", "x", "t">>
P_fxml     == <<"/", "s", "/", "f", ".", "x", "m", "l">>
P_b_md     == <<"/", "s", "/", "_", "b", ".", "m", "d">>
P_feed     == <<"/", "s", "/", "f", ".", "x", "m", "l", ".", "t", "s", "x">>
P_stale    == <<"/", "s", "/", "o", "/", "x", ".", "m", "d">>
P_layout   == <<"/", "s", "/", "_", "l", "a", "y", "o", "u", "t", ".", "t", "s", "x">>
P_blayout  == <<"/", "s", "/", "b", "/", "_", "l", "a", "y", "o", "u", "t", ".", "t", "s", "x">>

\* ------------------------------------------------------------------------
\* Objects
\* ------------------------------------------------------------------------

\* const merge = (...objs) => Object.assign({}, ...objs), for two and three
\* objects: a later object's value replaces an earlier one's on the same key.
\* An undefined argument is the empty object.
merge(a, b) ==
  [k \in (DOMAIN a) \cup (DOMAIN b) |-> IF k \in DOMAIN b THEN b[k] ELSE a[k]]

merge3(a, b, c) == merge(merge(a, b), c)

\* delete obj[key]
Delete(obj, key) == [k \in (DOMAIN obj) \ {key} |-> obj[k]]

\* obj[key] = val, on a registry or a file system
Put(obj, key, val) == [k \in (DOMAIN obj) \cup {key} |-> IF k = key THEN val ELSE obj[k]]

\* The object with no keys.
EmptyObj == <<>>

\* The values a front-matter layout key takes: YAML null, or a string; and
\* the argument of layout() when none is given or the key is not set.
JNull == [t |-> "null", s |-> <<>>]
JStr(s) == [t |-> "str", s |-> s]
Undefined == [t |-> "undefined", s |-> <<>>]

\* JavaScript truthiness of such a value: undefined, null and the empty
\* string are falsy.
Truthy(x) == x.t = "str" /\ x.s # <<>>

\* ------------------------------------------------------------------------
\* Path classifier
\* ------------------------------------------------------------------------

\* The build-metadata file names of Generator.ignorePath.
MetaNames ==
  { <<"s", "i", "t", "e", ".", "t", "s">>,
    <<"d", "e", "n", "o", ".", "j", "s", "o", "n">>,
    <<"d", "e", "n", "o", ".", "l", "o", "c", "k">> }

\* The test of Generator.ignorePath on the file name.
IgnoredName(filename) ==
  \/ filename \in MetaNames
  \/ StartsWith(filename, <<"_">>)
  \/ StartsWith(filename, <<".">>)

\* Generator.ignorePath
ignorePath(path) ==
  IF StartsWith(path, destDir) THEN TRUE ELSE IgnoredName(basename(path))

\* path.replace(/\/index$/, ""), then the empty path read as "/".
FoldIndex(p) ==
  IF p = <<"/", "i", "n", "d", "e", "x">> \/ p = <<>> THEN <<"/">>
  ELSE IF EndsWith(p, <<"/", "i", "n", "d", "e", "x">>) THEN SubSeq(p, 1, Len(p) - 6)
  ELSE p

\* Generator.pagePath: three replacements in a row, each of the first
\* occurrence only, the last one of a trailing /index.
pagePath(srcPath) ==
  FoldIndex(RemoveFirst(RemoveFirst(srcPath, srcDir), extname(srcPath)))

\* ------------------------------------------------------------------------
\* Markdown/highlight adapter
\* ------------------------------------------------------------------------
\* A markdown body is a sequence of blocks: a paragraph of text
\* [k |-> "text", s |-> its characters, lang |-> ""], or a fenced code block
\* [k |-> "code", s |-> the code, lang |-> its language ("" for none)].

\* The decimal digits of the counter.
Digits == <<"1", "2", "3", "4", "5", "6", "7", "8", "9">>

\* const key = `{{${i}}}`
Placeholder(i) == <<"{", "{", Digits[i], "}", "}">>

\* The highlighter writes the characters of the code that are special to
\* HTML as character references.
RECURSIVE sanitize(_)
sanitize(code) ==
  IF code = <<>> THEN <<>>
  ELSE (CASE Head(code) = "&" -> <<"&", "#", "3", "8", ";">>
          [] Head(code) = "<" -> <<"&", "l", "t", ";">>
          [] Head(code) = ">" -> <<"&", "#", "6", "2", ";">>
          [] OTHER -> <<Head(code)>>)
       \o sanitize(Tail(code))

\* highlightText(code, lang): markup around the sanitized code; the spans
\* the highlighter puts around the tokens of the language are left out.
highlightText(code, lang) == <<"<hl " \o lang \o ">">> \o sanitize(code) \o <<"</hl>">>

\* Marked.parse(s) with the highlight callback parseMarkdown installs, from
\* the block after the i-th code block on: the callback counts the code
\* blocks, records each under its placeholder key and returns the key, which
\* the renderer puts in place of the code. out is [content, ctx]: the markup
\* so far and the recorded blocks in insertion order.
RECURSIVE MarkedParse(_, _, _)
MarkedParse(blocks, i, out) ==
  IF blocks = <<>> THEN out
  ELSE IF Head(blocks).k = "text"
  THEN MarkedParse(Tail(blocks), i,
         [out EXCEPT !.content = @ \o <<"<p>">> \o Head(blocks).s \o <<"</p>">>])
  ELSE MarkedParse(Tail(blocks), i + 1,
         [content |-> out.content \o <<"<pre><code>">> \o Placeholder(i + 1)
                        \o <<"</code></pre>">>,
          ctx |-> Append(out.ctx, [key |-> Placeholder(i + 1), code |-> Head(blocks).s,
                                   lang |-> Head(blocks).lang])])

\* A setOptions that keeps the callback installed first.
InstalledOnce(current, t) == IF current = 0 THEN t ELSE current

\* Marked.setOptions({highlight: ...}) in the call t, lines 35-42: the call
\* whose closure the process-wide options hold from then on.
Installed(current, t) == t

\* The loop of parseMarkdown over the keys of ctx: each key's first
\* occurrence in the content is replaced by the highlighter's output, read
\* as a replacement pattern.
RECURSIVE Substitute(_, _)
Substitute(content, ctx) ==
  IF ctx = <<>> THEN content
  ELSE Substitute(
         ReplaceFirst(content, Head(ctx).key,
                      highlightText(Head(ctx).code, Head(ctx).lang)),
         Tail(ctx))

SubstituteAll(out) == Substitute(out.content, out.ctx)

\* parseMarkdown(s), run from its first line to its return.
parseMarkdown(blocks) == SubstituteAll(MarkedParse(blocks, 0, [content |-> <<>>, ctx |-> <<>>]))

\* ------------------------------------------------------------------------
\* Virtual nodes and views
\* ------------------------------------------------------------------------
\* A virtual node is a string [k |-> "string", s |-> its tokens] or a
\* structured node [k |-> "node", tag, attrs, children]. A tag is a literal
\* element name [lit |-> name] or an object with a view function; a view
\* function is the record of what it closes over, fn naming its code.
\* children is [def |-> whether it is defined, items |-> the array]; an
\* array value is [k |-> "array", items |-> its elements]. An undefined attrs
\* is the empty object (the code reads it through merge and attrs||{} only).

Str(s) == [k |-> "string", s |-> s]
Arr(items) == [k |-> "array", items |-> items]
Lit(name) == [lit |-> name]
IsObjectTag(tag) == "view" \in DOMAIN tag

\* v(tag, attrs, ...children): a single array argument is the children.
v(tag, attrs, args) ==
  [k |-> "node", tag |-> tag, attrs |-> attrs,
   children |-> [def |-> TRUE,
                 items |-> IF Len(args) = 1 /\ args[1].k = "array"
                           THEN args[1].items ELSE args]]

\* The passthrough layout of Generator.layout: { view: ({children}) => children }
Passthrough == [view |-> [fn |-> "passthrough"]]

\* The modules of the site. A layout module's default export is the view
\*   { view: ({attrs, children}) => v(NAME, attrs, children) }
\* and a page template's default export is
\*   view({}, (attrs) => v(NAME))
\* where NAME tells the module and the version of its source that was loaded.
IsLayoutPath(path) == basename(path) = LayoutFile

ModuleName(path, ver) ==
  (IF path = P_layout THEN "root" ELSE IF path = P_blayout THEN "blog" ELSE "feed")
    \o "-" \o ver

\* export function view(defaults, viewFn): the object it returns.
view(defaults, viewFn) == [view |-> [fn |-> "helper", defaults |-> defaults, viewFn |-> viewFn]]

ModuleDefault(path, ver) ==
  IF IsLayoutPath(path)
  THEN [view |-> [fn |-> "module", name |-> ModuleName(path, ver)]]
  ELSE view(EmptyObj, ModuleName(path, ver))

\* Lines 103-108 of the view helper, with the merged attrs and the view
\* function's node.
ViewHelperResult(attrs, body) ==
  IF "layout" \in DOMAIN attrs
  THEN v(attrs.layout, Delete(attrs, "layout"), <<body>>)
  ELSE body

\* The view function f, called with {attrs, children} while the global
\* configuration is g: what it returns (a string, an array or a node).
CallView(f, attrs, children, g) ==
  CASE f.fn = "passthrough" -> Arr(children.items)
    [] f.fn = "module" -> v(Lit(f.name), attrs, <<Arr(children.items)>>)
    [] f.fn = "helper" ->
         ViewHelperResult(merge3(attrs, f.defaults, [content |-> children.items]),
                          v(Lit(f.viewFn), EmptyObj, <<>>))
    [] f.fn = "md" -> v(f.layout, merge(f.attrs, g), <<Str(f.content)>>)
    [] f.fn = "tsx" -> v(f.mod, merge([layout |-> f.layout], g), <<>>)

\* tag.view({attrs, children}) at line 68
InvokeView(h, g) == CallView(h.tag.view, h.attrs, h.children, g)

\* The order in which the attributes of a node are written.
AttrOrder == <<"title", "src", "path", "dev", "content", "layout">>

\* `${attrs[attr]}`, or renderStyles(attrs[attr]) for an object (an array of
\* children, a view object).
AttrValue(key, val) ==
  CASE key = "title" -> <<val>>
    [] key \in {"src", "path"} -> val
    [] key = "dev" -> <<IF val THEN "true" ELSE "false">>
    [] key = "content" -> [i \in 1..Len(val) |-> "[object Object];"]
    [] OTHER -> <<"view: function;">>

\* renderAttrs(attrs), from the i-th attribute on; acc is what is written
\* so far.
RECURSIVE renderAttrs(_, _, _)
renderAttrs(attrs, i, acc) ==
  IF i > Len(AttrOrder) THEN acc
  ELSE IF AttrOrder[i] \in DOMAIN attrs
  THEN renderAttrs(attrs, i + 1,
         (IF acc = <<>> THEN <<>> ELSE acc \o <<" ">>)
           \o <<AttrOrder[i], "=\"">> \o AttrValue(AttrOrder[i], attrs[AttrOrder[i]])
           \o <<"\"">>)
  ELSE renderAttrs(attrs, i + 1, acc)

\* Lines 74-78: the opening tag with its attributes.
OpenTag(name, tagattrs) == IF tagattrs # <<>> THEN <<name, " ">> \o tagattrs ELSE <<name>>

\* function render(hyperscript), lines 61-83.
RECURSIVE render(_, _)
RECURSIVE renderEach(_, _)
RECURSIVE renderResult(_, _)

\* Lines 74-82, for a literal tag.
renderLiteral(h, g) ==
  IF h.children.def
  THEN <<"<">> \o OpenTag(h.tag.lit, renderAttrs(h.attrs, 1, <<>>)) \o <<">">>
         \o renderEach(h.children.items, g) \o <<"</", h.tag.lit, ">">>
  ELSE <<"<">> \o OpenTag(h.tag.lit, renderAttrs(h.attrs, 1, <<>>)) \o <<" />">>

\* children.map(c => render(c)).join("")
renderEach(items, g) ==
  IF items = <<>> THEN <<>> ELSE render(Head(items), g) \o renderEach(Tail(items), g)

\* Lines 69-72, for what the view returned.
renderResult(r, g) ==
  IF r.k = "string" THEN r.s
  ELSE IF r.k = "array" THEN renderEach(r.items, g)
  ELSE IF IsObjectTag(r.tag) THEN render(r, g)
  ELSE renderLiteral(r, g)

render(h, g) ==
  IF h.k = "string" THEN h.s
  ELSE IF IsObjectTag(h.tag) THEN renderResult(InvokeView(h, g), g)
  ELSE renderLiteral(h, g)

\* async function pretty(str): the markup as deno fmt writes it.
pretty(str) == <<"fmt(">> \o str \o <<")">>

\* Generator.render(page), for a page that is an object.
GeneratorRender(page, g) ==
  <<"<!DOCTYPE html>\n">> \o pretty(render(v(page, EmptyObj, <<>>), g))

\* ------------------------------------------------------------------------
\* The generator
\* ------------------------------------------------------------------------
\* A file is [delim, valid, fm, md, bytes]: a markdown document has its front
\* matter (delim: whether the text opens with ---; valid: whether the block
\* is well-formed YAML; fm: the object it parses to) and its body md; every
\* other file has its bytes. The file system fs maps the paths of the files
\* that exist to their contents.

VARIABLES
  fs,        \* the files under the source directory (the destination included)
  pages,     \* Generator.pages: route -> Page
  modules,   \* the module cache of the runtime: path -> version first imported
  dev,       \* config.global.dev
  serving,   \* whether serve() has started the server
  copies,    \* the copy() calls of buildAll that have not settled
  edits,     \* how many times the site's author has changed the source tree
  last,      \* the last call made, what it was given and what it returned
  tasks,     \* the rebuild calls that run concurrently, each with its locals
  marked     \* the call whose highlight callback Marked's options hold (0: none)

vars == <<fs, pages, modules, dev, serving, copies, edits, last, tasks, marked>>

\* config.global, with the dev flag serve() sets on it.
Global(d) == IF d THEN [title |-> "G", dev |-> TRUE] ELSE [title |-> "G"]

\* const exists = (pathname) => Deno.statSync(pathname).isFile, NotFound read
\* as false.
exists(files, pathname) == pathname \in DOMAIN files

\* await import("file://" + path): the module cache answers for a path
\* imported before; otherwise the file is read and cached, and a missing
\* file is an error. [ok, modules, ver]
Import(files, mods, path) ==
  IF path \in DOMAIN mods THEN [ok |-> TRUE, modules |-> mods, ver |-> mods[path]]
  ELSE IF path \in DOMAIN files
       THEN [ok |-> TRUE, modules |-> Put(mods, path, files[path].bytes[1]),
             ver |-> files[path].bytes[1]]
       ELSE [ok |-> FALSE, modules |-> mods, ver |-> ""]

\* Lines 175-178: the path of the layout file for a layout name.
LayoutPath(name) ==
  IF Truthy(name) THEN srcDir \o <<"/">> \o name.s \o <<"/">> \o LayoutFile
  ELSE srcDir \o <<"/">> \o LayoutFile

\* Lines 180-181: the default export of the imported layout module m.
ImportedLayout(m, layoutPath) ==
  [modules |-> m.modules, layout |-> ModuleDefault(layoutPath, m.ver)]

\* A layout lookup that falls back to the root layout.
LayoutAtOrRoot(files, mods, layoutPath) ==
  IF exists(files, layoutPath)
  THEN ImportedLayout(Import(files, mods, layoutPath), layoutPath)
  ELSE IF exists(files, srcDir \o <<"/">> \o LayoutFile)
  THEN ImportedLayout(Import(files, mods, srcDir \o <<"/">> \o LayoutFile),
                      srcDir \o <<"/">> \o LayoutFile)
  ELSE [modules |-> mods, layout |-> Passthrough]

\* Lines 179-184. [modules, layout]
LayoutAt(files, mods, layoutPath) ==
  IF exists(files, layoutPath)
  THEN ImportedLayout(Import(files, mods, layoutPath), layoutPath)
  ELSE [modules |-> mods, layout |-> Passthrough]

\* Generator.layout(name): [modules, layout]
layout(files, mods, name) == LayoutAt(files, mods, LayoutPath(name))

\* The page loadPage returns for a path that is no page source.
NullPage == [null |-> TRUE]

\* Lines 205-209: the attrs of a document; no front-matter block, or an empty
\* one, gives the empty object.
FrontMatter(file) == IF file.delim THEN file.fm ELSE EmptyObj

\* file.attrs.layout
LayoutKey(attrs) == IF "layout" \in DOMAIN attrs THEN attrs.layout ELSE Undefined

\* Lines 213-217: the page of a markdown document; attrs is the front matter
\* after delete file.attrs.layout.
MdPage(srcPath, path, lay, attrs, content) ==
  merge([src |-> srcPath, path |-> path,
         view |-> [fn |-> "md", layout |-> lay, attrs |-> attrs, content |-> content]],
        attrs)

\* Lines 222-226: the page of a programmatic template.
TsxPage(srcPath, path, mod, lay) ==
  [src |-> srcPath, path |-> path, view |-> [fn |-> "tsx", mod |-> mod, layout |-> lay]]

\* A store that copies the fields of the new page onto the object that is
\* registered already.
RegisteredInPlace(pgs, mods, path, page) ==
  [ok |-> TRUE,
   pages |-> Put(pgs, path, IF path \in DOMAIN pgs THEN merge(pgs[path], page) ELSE page),
   modules |-> mods, page |-> page]

\* this.pages[path] = page, and what loadPage returns then.
Registered(pgs, mods, path, page) ==
  [ok |-> TRUE, pages |-> Put(pgs, path, page), modules |-> mods, page |-> page]

\* loadPage stopped by an error: nothing is registered.
Raised(pgs, mods) == [ok |-> FALSE, pages |-> pgs, modules |-> mods, page |-> NullPage]

\* A load that leaves the layout key in the front matter.
LoadMdKeepingLayout(pgs, srcPath, attrs, content, l1) ==
  Registered(pgs, l1.modules, pagePath(srcPath),
             MdPage(srcPath, pagePath(srcPath), l1.layout, attrs, content))

\* Lines 211-218, with the layout l1 the front matter selects.
LoadMdWith(pgs, srcPath, attrs, content, l1) ==
  Registered(pgs, l1.modules, pagePath(srcPath),
             MdPage(srcPath, pagePath(srcPath), l1.layout, Delete(attrs, "layout"), content))

\* Lines 204-218. Deno.readTextFile raises NotFound for a missing file, and
\* extractFrontMatter raises an error for a malformed front-matter block.
LoadMd(files, pgs, mods, srcPath) ==
  IF ~exists(files, srcPath) \/ ~files[srcPath].valid THEN Raised(pgs, mods)
  ELSE LoadMdWith(pgs, srcPath, FrontMatter(files[srcPath]),
                  parseMarkdown(files[srcPath].md),
                  layout(files, mods, LayoutKey(FrontMatter(files[srcPath]))))

\* Lines 221-227, with the imported module m and the root layout l0.
LoadTsxWith(pgs, srcPath, l0, m) ==
  IF ~m.ok THEN Raised(pgs, l0.modules)
  ELSE Registered(pgs, m.modules, pagePath(srcPath),
                  TsxPage(srcPath, pagePath(srcPath), ModuleDefault(srcPath, m.ver),
                          l0.layout))

\* Lines 200-232, with the root layout l0 of line 199.
LoadWith(files, pgs, srcPath, l0) ==
  IF extname(srcPath) = <<".", "m", "d">> THEN LoadMd(files, pgs, l0.modules, srcPath)
  ELSE IF extname(srcPath) = <<".", "t", "s", "x">>
  THEN LoadTsxWith(pgs, srcPath, l0, Import(files, l0.modules, srcPath))
  ELSE [ok |-> TRUE, pages |-> pgs, modules |-> l0.modules, page |-> NullPage]

\* Generator.loadPage(srcPath), with the registry pgs and the module cache
\* mods: [ok (no error raised), pages, modules, page].
loadPage(files, pgs, mods, srcPath) ==
  LoadWith(files, pgs, srcPath, layout(files, mods, Undefined))

\* walk(this.srcDir, {includeDirs: false}): the files under the source
\* directory.
walk(files) == {q \in DOMAIN files : StartsWith(q, srcDir \o <<"/">>)}

\* The order in which walk yields the files is the directory's: the model
\* has the two orders that list the files of the source tree forwards (rev
\* is FALSE) and backwards. The files the build has put in the destination
\* come first, in some order: they are all ignored.
Listing == <<P_a_md, P_a_txt, P_b_md, P_feed, P_fxml, P_stale, P_layout, P_blayout>>

Listed == {Listing[i] : i \in 1..Len(Listing)}

Order(rev) ==
  IF rev THEN [i \in 1..Len(Listing) |-> Listing[Len(Listing) + 1 - i]] ELSE Listing

\* One turn of the loop of loadAll, lines 241-244; st is [ok, pages, modules].
LoadKept(r) == [ok |-> r.ok, pages |-> r.pages, modules |-> r.modules]

\* A loop that takes a file whose route is registered for a deletion.
LoadStepDropping(files, st, q) ==
  IF ignorePath(q) THEN st
  ELSE IF pagePath(q) \in DOMAIN st.pages
  THEN [st EXCEPT !.pages = Delete(st.pages, pagePath(q))]
  ELSE LoadKept(loadPage(files, st.pages, st.modules, q))

LoadStep(files, st, q) ==
  IF ignorePath(q) THEN st ELSE LoadKept(loadPage(files, st.pages, st.modules, q))

\* The loop of loadAll over the files todo, and then over the files of the
\* source tree from the i-th of order on: an error loadPage raises ends it.
RECURSIVE loadEach(_, _, _)
LoadNext(files, todo, st, q) == loadEach(files, todo \ {q}, LoadStep(files, st, q))

loadEach(files, todo, st) ==
  IF todo = {} \/ ~st.ok THEN st ELSE LoadNext(files, todo, st, CHOOSE q \in todo : TRUE)

RECURSIVE loadListed(_, _, _, _)
loadListed(files, order, i, st) ==
  IF i > Len(order) \/ ~st.ok THEN st
  ELSE IF order[i] \in DOMAIN files
  THEN loadListed(files, order, i + 1, LoadStep(files, st, order[i]))
  ELSE loadListed(files, order, i + 1, st)

\* Generator.loadAll(): [ok, pages, modules]
loadAll(files, pgs, mods, rev) ==
  loadListed(files, Order(rev), 1,
             loadEach(files, walk(files) \ Listed,
                      [ok |-> TRUE, pages |-> pgs, modules |-> mods]))

\* Lines 253-254 of rebuild, with what loadPage returned.
Rebuilt(r, g) ==
  IF r.ok /\ r.page # NullPage
  THEN [kind |-> "markup", out |-> GeneratorRender(r.page, g), loaded |-> TRUE,
        pages |-> r.pages, modules |-> r.modules]
  ELSE [kind |-> "error", out |-> <<>>, loaded |-> TRUE,
        pages |-> r.pages, modules |-> r.modules]

\* A rebuild that guesses the source of a route it does not know.
rebuildGuessing(files, pgs, mods, path, g) ==
  IF path \notin DOMAIN pgs
  THEN Rebuilt(loadPage(files, pgs, mods, srcDir \o path \o <<".", "m", "d">>), g)
  ELSE Rebuilt(loadPage(files, pgs, mods, pgs[path].src), g)

\* Generator.rebuild(path): [kind, out, loaded, pages, modules]; kind is
\* "null" (the route is not registered), "markup" (out is the document) or
\* "error" (an error was raised: the source could not be read or imported,
\* or loadPage returned null and render(null) failed); loaded tells whether
\* loadPage was called.
rebuild(files, pgs, mods, path, g) ==
  IF path \notin DOMAIN pgs
  THEN [kind |-> "null", out |-> <<>>, loaded |-> FALSE, pages |-> pgs, modules |-> mods]
  ELSE Rebuilt(loadPage(files, pgs, mods, pgs[path].src), g)

\* The file a path names: the file system reads // as /.
RECURSIVE Normalize(_)
Normalize(path) ==
  IF Len(path) < 2 THEN path
  ELSE IF path[1] = "/" /\ path[2] = "/" THEN Normalize(Tail(path))
  ELSE <<path[1]>> \o Normalize(Tail(path))

IsDirectory(files, path) == \E q \in DOMAIN files : StartsWith(q, path \o <<"/">>)

\* Whether a file can be created or overwritten at path: no directory of the
\* path is a file (mkdirAll fails silently there) and path is no directory.
Writable(files, path) ==
  /\ ~IsDirectory(files, path)
  /\ \A i \in 2..Len(path) : path[i] = "/" => SubSeq(path, 1, i - 1) \notin DOMAIN files

File(bytes) ==
  [delim |-> FALSE, valid |-> TRUE, fm |-> EmptyObj, md |-> <<>>, bytes |-> bytes]

\* Line 275: where buildAll writes a page.
Target(page) ==
  Normalize(destDir \o page.path \o <<"/", "i", "n", "d", "e", "x", ".", "h", "t", "m", "l">>)

\* Lines 280-281: where buildAll copies a file that is no page.
OutPath(q) == Normalize(destDir \o <<"/">> \o RemoveFirst(q, srcDir))

\* Lines 273-278: the page of the walked file q is rendered and written; a
\* write that fails ends buildAll with an error.
WritePage(acc, q, target, out) ==
  IF Writable(acc.fs, target)
  THEN [acc EXCEPT !.fs = Put(acc.fs, target, File(out)), !.written = @ \cup {q}]
  ELSE [acc EXCEPT !.ok = FALSE]

\* Lines 280-283: copy() is called and not awaited.
StartCopy(acc, q) ==
  [acc EXCEPT !.copies = @ \cup {[from |-> q, to |-> OutPath(q)]},
              !.copied = @ \cup {q}]

\* One turn of the second loop of buildAll, lines 268-284.
BuildStep(acc, pgs, g, q) ==
  IF ignorePath(q) THEN acc
  ELSE IF pagePath(q) \in DOMAIN pgs
  THEN WritePage(acc, q, Target(pgs[pagePath(q)]), GeneratorRender(pgs[pagePath(q)], g))
  ELSE StartCopy(acc, q)

\* The second loop of Generator.buildAll over the files of the walk: acc is
\* [ok, fs, copies, written, copied]. written and copied name the source
\* paths that were rendered and handed to copy().
RECURSIVE buildEach(_, _, _, _)
BuildNext(todo, pgs, g, acc, q) == buildEach(todo \ {q}, pgs, g, BuildStep(acc, pgs, g, q))

buildEach(todo, pgs, g, acc) ==
  IF todo = {} \/ ~acc.ok THEN acc
  ELSE BuildNext(todo, pgs, g, acc, CHOOSE q \in todo : TRUE)

\* The same loop over the files of the source tree that were there when the
\* walk began, from the i-th of order on.
RECURSIVE buildListed(_, _, _, _, _, _)
buildListed(files, order, i, pgs, g, acc) ==
  IF i > Len(order) \/ ~acc.ok THEN acc
  ELSE IF order[i] \in DOMAIN files
  THEN buildListed(files, order, i + 1, pgs, g, BuildStep(acc, pgs, g, order[i]))
  ELSE buildListed(files, order, i + 1, pgs, g, acc)

\* What buildAll leaves: [ok, fs, pages, modules, copies, written, copied]
Built(la, b) ==
  [ok |-> b.ok, fs |-> b.fs, pages |-> la.pages, modules |-> la.modules,
   copies |-> b.copies, written |-> b.written, copied |-> b.copied]

\* Lines 263-285, after the loadAll of line 262 left la: an error of loadAll
\* ends buildAll before anything is written.
BuildLoaded(files, la, cps, g, rev) ==
  Built(la, buildListed(files, Order(rev), 1, la.pages, g,
                        buildEach(walk(files) \ Listed, la.pages, g,
                                  [ok |-> la.ok, fs |-> files, copies |-> cps,
                                   written |-> {}, copied |-> {}])))

\* Generator.buildAll()
buildAll(files, pgs, mods, cps, g, rev) ==
  BuildLoaded(files, loadAll(files, pgs, mods, rev), cps, g, rev)

\* The headers of the response to a rebuilt page, lines 313-318.
NoCacheHeaders ==
  [contentType |-> "text/html", cacheControl |-> "no-cache, no-store, must-revalidate",
   pragma |-> "no-cache", expires |-> "0"]

\* The headers of the Not found response, line 320.
HtmlHeaders == [contentType |-> "text/html", cacheControl |-> "", pragma |-> "", expires |-> ""]

NoHeaders == [contentType |-> "", cacheControl |-> "", pragma |-> "", expires |-> ""]

Response(kind, status, body, file, headers) ==
  [kind |-> kind, status |-> status, body |-> body, file |-> file, headers |-> headers]

\* Lines 309-321: the response to what rebuild returned. When rebuild raised
\* an error the handler returns no response, and the server answers 500.
Responded(r) ==
  [resp |-> CASE r.kind = "markup" -> Response("page", 200, r.out, <<>>, NoCacheHeaders)
              [] r.kind = "null" -> Response("notfound", 404, <<"Not found">>, <<>>, HtmlHeaders)
              [] OTHER -> Response("error", 500, <<>>, <<>>, NoHeaders),
   rebuilt |-> TRUE, pages |-> r.pages, modules |-> r.modules]

\* A handler that asks the registry before the source tree.
handlerPageFirst(files, pgs, mods, pathname, claimed, g) ==
  IF claimed
  THEN [resp |-> Response("reload", 101, <<>>, <<>>, NoHeaders),
        rebuilt |-> FALSE, pages |-> pgs, modules |-> mods]
  ELSE IF pathname \in DOMAIN pgs
  THEN Responded(rebuild(files, pgs, mods, pathname, g))
  ELSE IF pathname # <<"/">> /\ exists(files, srcDir \o pathname)
  THEN [resp |-> Response("static", 200, <<>>, srcDir \o pathname, NoHeaders),
        rebuilt |-> FALSE, pages |-> pgs, modules |-> mods]
  ELSE Responded(rebuild(files, pgs, mods, pathname, g))

\* The request handler of Generator.serve, lines 294-322, for a request of
\* pathname that the live-reload middleware claims or not:
\* [resp, rebuilt, pages, modules]. resp.kind is "reload" (the middleware's
\* response), "static" (serveDir's response: the file resp.file), "page",
\* "notfound" or "error"; rebuilt tells whether rebuild was called.
handler(files, pgs, mods, pathname, claimed, g) ==
  IF claimed
  THEN [resp |-> Response("reload", 101, <<>>, <<>>, NoHeaders),
        rebuilt |-> FALSE, pages |-> pgs, modules |-> mods]
  ELSE IF pathname # <<"/">> /\ exists(files, srcDir \o pathname)
  THEN [resp |-> Response("static", 200, <<>>, srcDir \o pathname, NoHeaders),
        rebuilt |-> FALSE, pages |-> pgs, modules |-> mods]
  ELSE Responded(rebuild(files, pgs, mods, pathname, g))

\* ------------------------------------------------------------------------
\* The source trees of the model
\* ------------------------------------------------------------------------

Text(s) == [k |-> "text", s |-> s, lang |-> ""]
Code(s, lang) == [k |-> "code", s |-> s, lang |-> lang]
Md(delim, fm, blocks) ==
  [delim |-> delim, valid |-> TRUE, fm |-> fm, md |-> blocks, bytes |-> <<>>]

BodyA == <<Text(<<"A">>)>>
BodyB == <<Text(<<"B">>), Code(<<"x">>, "js")>>

MdA    == Md(FALSE, EmptyObj, BodyA)
MdB    == Md(FALSE, EmptyObj, BodyB)
MdT    == Md(TRUE, [title |-> "T"], BodyA)
MdNull == Md(TRUE, [layout |-> JNull], BodyA)
MdBlog == Md(TRUE, [layout |-> JStr(<<"b">>)], BodyA)
MdSrc  == Md(TRUE, [src |-> P_b_md], BodyA)
MdPath == Md(TRUE, [path |-> <<"/", "z">>], BodyA)
MdBad  == [delim |-> TRUE, valid |-> FALSE, fm |-> EmptyObj, md |-> BodyA, bytes |-> <<>>]

\* What the author may write at a path of the source tree: the document in
\* its variants, a second version of the page template, a file named as the
\* template's route, the layout of the blog.
Candidates ==
  [q \in {P_a_md, P_feed, P_fxml, P_blayout} |->
     CASE q = P_a_md -> {MdA, MdB, MdT, MdNull, MdBlog, MdSrc, MdPath, MdBad}
       [] q = P_feed -> {File(<<"B">>)}
       [] OTHER -> {File(<<"A">>)}]

\* The trees the site starts from: a full one (a document, an asset of the
\* same stem, a private partial, a page template, a root layout, a stale
\* file in the destination) and a bare one (the document alone).
TreeFull ==
  [q \in {P_a_md, P_a_txt, P_b_md, P_feed, P_stale, P_layout} |->
     IF q \in {P_a_md, P_b_md, P_stale} THEN MdA ELSE File(<<"A">>)]

TreeBare == [q \in {P_a_md} |-> MdA]

\* The request paths and routes the model asks for.
Routes == { <<"/">>, <<"/", "a">>, <<"/", "f", ".", "x", "m", "l">> }

\* How many changes the author makes to the source tree.
MaxEdits == 1

\* ------------------------------------------------------------------------
\* Actions
\* ------------------------------------------------------------------------
\* The program that holds the generator calls loadAll, buildAll and rebuild
\* one after the other, or calls serve: serve() does not return while the
\* server runs, and from then on the generator is called by the request
\* handler only.

Init ==
  /\ fs \in {TreeFull, TreeBare}
  /\ pages = <<>>
  /\ modules = <<>>
  /\ dev = FALSE
  /\ serving = FALSE
  /\ copies = {}
  /\ edits = 0
  /\ tasks = <<>>
  /\ marked = 0
  /\ last = [op |-> "new"]

\* The author writes a file of the source tree, or changes one.
Edit(q, c) ==
  /\ edits < MaxEdits
  /\ (IF q \in DOMAIN fs THEN fs[q] # c ELSE TRUE)
  /\ Writable(fs, q)
  /\ fs' = Put(fs, q, c)
  /\ edits' = edits + 1
  /\ last' = [op |-> "edit", path |-> q]
  /\ UNCHANGED <<tasks, marked, pages, modules, dev, serving, copies>>

\* The author deletes a file of the source tree.
Remove(q) ==
  /\ edits < MaxEdits
  /\ q \in DOMAIN fs
  /\ fs' = Delete(fs, q)
  /\ edits' = edits + 1
  /\ last' = [op |-> "edit", path |-> q]
  /\ UNCHANGED <<tasks, marked, pages, modules, dev, serving, copies>>

\* await site.loadAll()
LoadAllDone(r) ==
  /\ ~serving
  /\ pages' = r.pages
  /\ modules' = r.modules
  /\ last' = [op |-> "loadAll", ok |-> r.ok, before |-> pages,
              again |-> (last.op = "loadAll" /\ last.ok)]
  /\ UNCHANGED <<tasks, marked, fs, dev, serving, copies, edits>>

LoadAll == \E rev \in BOOLEAN : LoadAllDone(loadAll(fs, pages, modules, rev))

\* await site.buildAll()
BuildAllDone(r) ==
  /\ ~serving
  /\ fs' = r.fs
  /\ pages' = r.pages
  /\ modules' = r.modules
  /\ copies' = r.copies
  /\ last' = [op |-> "buildAll", ok |-> r.ok, written |-> r.written, copied |-> r.copied]
  /\ UNCHANGED <<tasks, marked, dev, serving, edits>>

BuildAll ==
  \E rev \in BOOLEAN : BuildAllDone(buildAll(fs, pages, modules, copies, Global(dev), rev))

\* A copy() that buildAll started settles: the file is copied over the
\* target, or the copy fails (its source is gone, or its target cannot be
\* written) and the promise nobody holds is rejected.
CopySettles(c) ==
  /\ c \in copies
  /\ copies' = copies \ {c}
  /\ fs' = IF c.from \in DOMAIN fs /\ Writable(fs, c.to) THEN Put(fs, c.to, fs[c.from])
           ELSE fs
  /\ UNCHANGED <<tasks, marked, pages, modules, dev, serving, edits, last>>

\* await site.rebuild(route)
RebuildDone(route, r) ==
  /\ ~serving
  /\ pages' = r.pages
  /\ modules' = r.modules
  /\ last' = [op |-> "rebuild", route |-> route, kind |-> r.kind, out |-> r.out,
              loaded |-> r.loaded, before |-> pages,
              edited |-> IF last.op = "edit" THEN last.path ELSE <<>>]
  /\ UNCHANGED <<tasks, marked, fs, dev, serving, copies, edits>>

Rebuild(route) == RebuildDone(route, rebuild(fs, pages, modules, route, Global(dev)))

\* Generator.serve() up to the point where the server listens: the dev flag
\* is set on the global configuration and the pages are loaded. An error of
\* loadAll ends serve() before the server is started.
ServeStarted(r) ==
  /\ ~serving
  /\ dev' = TRUE
  /\ serving' = r.ok
  /\ pages' = r.pages
  /\ modules' = r.modules
  /\ last' = [op |-> "serve", ok |-> r.ok]
  /\ UNCHANGED <<tasks, marked, fs, copies, edits>>

Serve == \E rev \in BOOLEAN : ServeStarted(loadAll(fs, pages, modules, rev))

\* A request reaches the dev server.
RequestDone(pathname, claimed, r) ==
  /\ serving
  /\ pages' = r.pages
  /\ modules' = r.modules
  /\ last' = [op |-> "request", pathname |-> pathname, claimed |-> claimed,
              resp |-> r.resp, rebuilt |-> r.rebuilt, before |-> pages,
              wasFile |-> exists(fs, srcDir \o pathname)]
  /\ UNCHANGED <<tasks, marked, fs, dev, serving, copies, edits>>

Request(pathname, claimed) ==
  RequestDone(pathname, claimed, handler(fs, pages, modules, pathname, claimed, Global(dev)))

Next ==
  \/ \E q \in DOMAIN Candidates : \E c \in Candidates[q] : Edit(q, c)
  \/ \E q \in Listed : Remove(q)
  \/ LoadAll
  \/ BuildAll
  \/ \E c \in copies : CopySettles(c)
  \/ \E route \in Routes : Rebuild(route)
  \/ Serve
  \/ \E pathname \in Routes : \E claimed \in BOOLEAN : Request(pathname, claimed)

Spec == Init /\ [][Next]_vars

\* ------------------------------------------------------------------------
\* The dev server and rebuild
\* ------------------------------------------------------------------------

\* Whether the last request was left to serveDir's branch of the handler.
WasStatic == last.pathname # <<"/">> /\ last.wasFile

\* Whether loadPage cannot load the source q: the document is missing or its
\* front matter is malformed, the template is missing and was never
\* imported, or q is neither a document nor a template.
Unloadable(q) ==
  IF extname(q) = <<".", "m", "d">> THEN q \notin DOMAIN fs \/ ~fs[q].valid
  ELSE IF extname(q) = <<".", "t", "s", "x">>
  THEN q \notin DOMAIN fs /\ q \notin DOMAIN modules
  ELSE TRUE

\* C1 as the specification states it: every request gets exactly one of four
\* responses, in this order: the live-reload middleware's response when it
\* claims the request; the file under the source directory when the path is
\* not "/" and names one; the rebuilt page with status 200 and the
\* cache-defeating headers when rebuild returns a result; and 404 otherwise.
C1_FourResponses ==
  last.op = "request" =>
    IF last.claimed THEN last.resp.kind = "reload" /\ ~last.rebuilt
    ELSE IF WasStatic
    THEN last.resp.kind = "static" /\ last.resp.file = srcDir \o last.pathname
         /\ ~last.rebuilt
    ELSE /\ last.rebuilt
         /\ last.resp.kind \in {"page", "notfound"}
         /\ last.resp.kind = "page" =>
              last.resp.status = 200 /\ last.resp.headers = NoCacheHeaders
              /\ last.resp.body # <<>>
         /\ last.resp.kind = "notfound" => last.resp.status = 404

\* C1, amended: the order is the one stated (the middleware's response, then
\* the static file, served without rebuild even when a page is registered at
\* the route, then rebuild), and rebuild has three outcomes, not two: for a
\* route that is not registered the response is 404; for a registered route
\* whose source can be loaded it is the page with status 200 and the
\* cache-defeating headers; for a registered route whose source cannot be
\* loaded rebuild raises, the handler returns no response and the server
\* answers 500.
C1_Precedence ==
  last.op = "request" =>
    IF last.claimed
    THEN last.resp.kind = "reload" /\ ~last.rebuilt /\ pages = last.before
    ELSE IF WasStatic
    THEN last.resp.kind = "static" /\ last.resp.file = srcDir \o last.pathname
         /\ ~last.rebuilt /\ pages = last.before
    ELSE IF last.pathname \notin DOMAIN last.before
    THEN last.rebuilt /\ last.resp.kind = "notfound" /\ last.resp.status = 404
    ELSE IF Unloadable(last.before[last.pathname].src)
    THEN last.rebuilt /\ last.resp.kind = "error" /\ last.resp.status = 500
    ELSE /\ last.rebuilt
         /\ last.resp.kind = "page"
         /\ last.resp.status = 200
         /\ last.resp.headers = NoCacheHeaders
         /\ last.resp.body # <<>>

\* A file of the source tree was served at a route where a page is registered.
C1_StaticOverPage ==
  /\ last.op = "request"
  /\ last.resp.kind = "static"
  /\ last.pathname \in DOMAIN last.before
  /\ ~last.rebuilt

\* The page rebuild is expected to load from the source src: the one loadPage
\* builds from the file as it is now, the module of src read afresh.
FreshPage(src) == loadPage(fs, <<>>, Delete(modules, src), src).page

\* C2: for every registered route, when the content of its backing file
\* changes from A to B and rebuild is called for the route, the markup
\* returned is the rendering of B and the registry entry of the route is the
\* page loaded from B, for documents and for templates alike.
C2_RebuildReflectsEdit ==
  ( /\ last.op = "rebuild"
    /\ last.route \in DOMAIN last.before
    /\ last.edited = last.before[last.route].src
    /\ last.edited \in DOMAIN fs
    /\ fs[last.edited].valid )
  => /\ last.kind = "markup"
     /\ last.out = GeneratorRender(FreshPage(last.edited), Global(dev))
     /\ last.route \in DOMAIN pages
     /\ pages[last.route] = FreshPage(last.edited)

\* C3: rebuild of a route that is not registered returns null, does not call
\* the loader and leaves the registry as it was; the dev server answers such
\* a request, when no file of the source tree matches it, with 404.
C3_UnregisteredRoute ==
  /\ (last.op = "rebuild" /\ last.route \notin DOMAIN last.before)
       => last.kind = "null" /\ ~last.loaded /\ pages = last.before
  /\ (last.op = "request" /\ ~last.claimed /\ ~WasStatic
        /\ last.pathname \notin DOMAIN last.before)
       => last.resp.kind = "notfound" /\ last.resp.status = 404 /\ pages = last.before

\* A route that is not registered was rebuilt while its document exists and
\* other routes are registered.
C3_Witness ==
  /\ last.op = "rebuild"
  /\ last.route \notin DOMAIN last.before
  /\ last.before # <<>>
  /\ srcDir \o last.route \o <<".", "m", "d">> \in DOMAIN fs

\* ------------------------------------------------------------------------
\* Ignore rules and the build
\* ------------------------------------------------------------------------

\* The paths the ignore rules name: under the destination directory, build
\* metadata, or a filename that starts with _ or a dot.
Ignorable(q) ==
  \/ StartsWith(q, destDir \o <<"/">>)
  \/ basename(q) \in {<<"s", "i", "t", "e", ".", "t", "s">>,
                       <<"d", "e", "n", "o", ".", "j", "s", "o", "n">>,
                       <<"d", "e", "n", "o", ".", "l", "o", "c", "k">>}
  \/ (basename(q) # <<>> /\ basename(q)[1] \in {"_", "."})

\* C5: after any sequence of loadAll, buildAll and rebuild calls no page of
\* the registry has a source path the ignore rules name, and buildAll never
\* renders or copies such a path into the destination directory.
C5_NoIgnoredPath ==
  /\ \A r \in DOMAIN pages : ~Ignorable(pages[r].src)
  /\ last.op = "buildAll" => \A q \in last.written \cup last.copied : ~Ignorable(q)

\* Whether q is a page source: a document or a template.
IsPageSource(q) == extname(q) \in {<<".", "m", "d">>, <<".", "t", "s", "x">>}

\* C6: when buildAll has completed (and every copy it started has settled),
\* every source file that is not ignored has produced one kind of output: a
\* page source has its route rendered and written, every other file has been
\* copied byte for byte to the mirrored location under the destination
\* directory.
C6_EveryFileHasOutput ==
  (last.op = "buildAll" /\ last.ok /\ copies = {})
  => \A q \in walk(fs) :
       ~Ignorable(q) =>
         IF IsPageSource(q) THEN q \in last.written
         ELSE /\ OutPath(q) \in DOMAIN fs
              /\ fs[OutPath(q)] = fs[q]

\* The first token of an XML document and of an HTML document.
XmlProlog == "<?xml version=\"1.0\" encoding=\"UTF-8\"?>\n"
HtmlDoctype == "<!DOCTYPE html>\n"

\* Where the claim puts the output of the route r.
ClaimedTarget(r) ==
  IF extname(r) # <<>> THEN Normalize(destDir \o r)
  ELSE Normalize(destDir \o r \o <<"/", "i", "n", "d", "e", "x", ".", "h", "t", "m", "l">>)

\* C7: buildAll writes the output of each registered page to
\* <destDir>/<route>/index.html when the route has no extension and to
\* <destDir>/<route> when it has one, and the document starts with an XML
\* prolog for an .xml route and with an HTML doctype for every other route.
\* (Stated for the pages whose front matter does not set a path of its own.)
C7_OutputPath ==
  (last.op = "buildAll" /\ last.ok)
  => \A r \in DOMAIN pages :
       (pages[r].src \in last.written /\ pages[r].path = r) =>
         /\ ClaimedTarget(r) \in DOMAIN fs
         /\ fs[ClaimedTarget(r)].bytes # <<>>
         /\ fs[ClaimedTarget(r)].bytes[1] =
              (IF extname(r) = <<".", "x", "m", "l">> THEN XmlProlog ELSE HtmlDoctype)

\* ------------------------------------------------------------------------
\* Documents and their layouts
\* ------------------------------------------------------------------------

\* The attrs the view of a page hands to its layout (line 216).
RenderContext(page, g) ==
  CallView(page.view, EmptyObj, [def |-> TRUE, items |-> <<>>], g).attrs

\* C8: the render context handed to the layout of a markdown page is the
\* merge of the global configuration, then the front matter without its
\* layout key, then {path: route}, the later overriding the earlier: a key
\* of both the configuration and the front matter has the front matter's
\* value, and path is the route of the page.
C8_MergeOrder ==
  \A r \in DOMAIN pages :
    pages[r].view.fn = "md" =>
      RenderContext(pages[r], Global(dev))
        = merge3(Global(dev), pages[r].view.attrs, [path |-> r])

\* Whether the last call loaded every page of the source tree.
LoadedAll == last.op \in {"loadAll", "serve", "buildAll"} /\ last.ok

\* The documents of the source tree that loadAll loads.
Documents ==
  {q \in walk(fs) : ~Ignorable(q) /\ extname(q) = <<".", "m", "d">>}

\* What rendering the parsed body of the document q directly gives.
BodyRendered(q) == render(Str(parseMarkdown(fs[q].md)), Global(dev))

\* What rendering the view of the page registered for the document q gives.
PageRendered(q) == render(v(pages[pagePath(q)], EmptyObj, <<>>), Global(dev))

\* C9: a document whose front matter sets layout to null is rendered with
\* the passthrough layout, its children as they are, even when a root
\* layout file exists.
C9_NullLayoutOptsOut ==
  LoadedAll =>
    \A q \in Documents :
      LayoutKey(FrontMatter(fs[q])) = JNull =>
        /\ pages[pagePath(q)].view.layout = Passthrough
        /\ PageRendered(q) = BodyRendered(q)

\* The layout file a document selects: the root one when the front matter
\* has no layout key, the one in the directory of the name when it names a
\* layout.
SelectedLayoutFile(attrs) ==
  IF "layout" \in DOMAIN attrs
  THEN srcDir \o <<"/">> \o attrs.layout.s \o <<"/">> \o LayoutFile
  ELSE srcDir \o <<"/">> \o LayoutFile

\* C10: whenever the layout file a document selects is absent, the root one
\* for an unset layout and <name>/_layout for a named one, the layout of the
\* page is the passthrough view and rendering the page's view gives exactly
\* what rendering the parsed body gives; a named layout that is missing
\* does not fall back to the root layout.
C10_AbsentLayoutPassthrough ==
  LoadedAll =>
    \A q \in Documents :
      ( /\ LayoutKey(FrontMatter(fs[q])) # JNull
        /\ SelectedLayoutFile(FrontMatter(fs[q])) \notin DOMAIN fs )
      => /\ pages[pagePath(q)].view.layout = Passthrough
         /\ PageRendered(q) = BodyRendered(q)

\* A document that names a layout whose file is missing was loaded while the
\* root layout exists.
C10_Witness ==
  /\ LoadedAll
  /\ P_a_md \in DOMAIN fs
  /\ P_layout \in DOMAIN fs
  /\ "layout" \in DOMAIN FrontMatter(fs[P_a_md])
  /\ LayoutKey(FrontMatter(fs[P_a_md])) # JNull
  /\ SelectedLayoutFile(FrontMatter(fs[P_a_md])) \notin DOMAIN fs
  /\ pages[pagePath(P_a_md)].view.layout = Passthrough

\* ------------------------------------------------------------------------
\* parseMarkdown on its own
\* ------------------------------------------------------------------------

\* How many blocks a markdown body of SpecMd has at most.
MaxBlocks == 3

\* The paragraphs and the fenced code blocks the bodies are made of: plain
\* ones, ones that spell a placeholder key, and code with a dollar sign.
MdBlocks ==
  {Text(<<"x">>), Text(Placeholder(1))}
    \cup {Code(c, "js") : c \in {<<"x">>, <<"$", "$">>, <<"$", "&">>, Placeholder(2)}}

MdBodies == UNION {[1..n -> MdBlocks] : n \in 0..MaxBlocks}

InitMd ==
  /\ fs \in {[q \in {P_a_md} |-> Md(FALSE, EmptyObj, body)] : body \in MdBodies}
  /\ pages = <<>>
  /\ modules = <<>>
  /\ dev = FALSE
  /\ serving = FALSE
  /\ copies = {}
  /\ edits = 0
  /\ tasks = <<>>
  /\ marked = 0
  /\ last = [op |-> "new"]

\* await parseMarkdown(file.body)
ParseMarkdown ==
  /\ last.op = "new"
  /\ last' = [op |-> "parseMarkdown", body |-> fs[P_a_md].md,
              out |-> parseMarkdown(fs[P_a_md].md)]
  /\ UNCHANGED <<tasks, marked, fs, pages, modules, dev, serving, copies, edits>>

NextMd == ParseMarkdown

SpecMd == InitMd /\ [][NextMd]_vars

\* The markup the claim expects of a body: every paragraph as Marked
\* renders it, and in place of every code block the highlighter's output
\* for its code and language.
RECURSIVE ExpectedMarkup(_)
ExpectedMarkup(blocks) ==
  IF blocks = <<>> THEN <<>>
  ELSE (IF Head(blocks).k = "text" THEN <<"<p>">> \o Head(blocks).s \o <<"</p>">>
        ELSE <<"<pre><code>">> \o highlightText(Head(blocks).s, Head(blocks).lang)
               \o <<"</code></pre>">>)
       \o ExpectedMarkup(Tail(blocks))

\* C4: for a body of n fenced code blocks parseMarkdown returns markup in
\* which no placeholder the adapter put in is left and the k-th code block
\* is replaced by the highlighter's output for its code and language, with
\* everything outside the code blocks kept as it was, whatever the code
\* blocks contain and whatever the highlighter returns.
C4_SubstitutionComplete ==
  last.op = "parseMarkdown" => last.out = ExpectedMarkup(last.body)
\* ------------------------------------------------------------------------
\* Front matter and the registry
\* ------------------------------------------------------------------------

\* C11: for every markdown page, whatever its front matter contains, a
\* layout key included, the attribute object delivered to the view that
\* renders it has no key named layout.
C11_NoLayoutKey ==
  \A r \in DOMAIN pages :
    pages[r].view.fn = "md" =>
      /\ "layout" \notin DOMAIN pages[r].view.attrs
      /\ "layout" \notin DOMAIN RenderContext(pages[r], Global(dev))

\* A document whose front matter has a layout key was loaded.
C11_Witness ==
  /\ LoadedAll
  /\ P_a_md \in DOMAIN fs
  /\ "layout" \in DOMAIN FrontMatter(fs[P_a_md])
  /\ pagePath(P_a_md) \in DOMAIN pages
  /\ pages[pagePath(P_a_md)].view.fn = "md"
\* ------------------------------------------------------------------------
\* pagePath on its own
\* ------------------------------------------------------------------------

\* How many directories a source path of SpecPath has at most.
MaxDirs == 2

\* The directory names, the file stems and the extensions the source paths
\* are made of: a directory may be named like the source directory, like an
\* index, or with the text of an extension in it.
DirNames == {<<"d">>, <<"s">>, <<"i", "n", "d", "e", "x">>, <<"x", ".", "m", "d">>,
             <<"y", ".", "m", "d", "s">>}
Stems == {<<"a">>, <<"i", "n", "d", "e", "x">>, <<"a", ".", "b">>}
Extensions == {<<".", "m", "d">>, <<".", "t", "s", "x">>, <<".", "t", "x", "t">>, <<>>}

\* The directories ds joined under the source directory.
RECURSIVE UnderDirs(_, _)
UnderDirs(ds, acc) ==
  IF ds = <<>> THEN acc ELSE UnderDirs(Tail(ds), acc \o <<"/">> \o Head(ds))

SourcePaths ==
  {UnderDirs(ds, srcDir) \o <<"/">> \o stem \o ext :
     ds \in UNION {[1..n -> DirNames] : n \in 0..MaxDirs},
     stem \in Stems, ext \in Extensions}

InitPath ==
  /\ fs = TreeBare
  /\ pages = <<>>
  /\ modules = <<>>
  /\ dev = FALSE
  /\ serving = FALSE
  /\ copies = {}
  /\ edits = 0
  /\ tasks = <<>>
  /\ marked = 0
  /\ last \in {[op |-> "new", srcPath |-> q] : q \in SourcePaths}

\* this.pagePath(srcPath)
PagePath ==
  /\ last.op = "new"
  /\ last' = [op |-> "pagePath", srcPath |-> last.srcPath, path |-> pagePath(last.srcPath)]
  /\ UNCHANGED <<tasks, marked, fs, pages, modules, dev, serving, copies, edits>>

NextPath == PagePath

SpecPath == InitPath /\ [][NextPath]_vars

\* s without its last n characters.
DropLast(s, n) == SubSeq(s, 1, Len(s) - n)

\* The route the claim gives a source path under the source directory: the
\* prefix removed, then the file's own extension removed from the end, then
\* a trailing /index folded, and / for what is left empty.
RouteOf(rel) ==
  IF EndsWith(rel, <<"/", "i", "n", "d", "e", "x">>)
  THEN (IF Len(rel) = 6 THEN <<"/">> ELSE DropLast(rel, 6))
  ELSE IF rel = <<>> THEN <<"/">> ELSE rel

ClaimedRoute(srcPath) ==
  RouteOf(DropLast(SubSeq(srcPath, Len(srcDir) + 1, Len(srcPath)), Len(extname(srcPath))))

\* C12: pagePath(srcPath) is srcPath with the source-directory prefix
\* removed, the file's own trailing extension removed, a trailing /index
\* folded into its parent and an empty result mapped to /, for every source
\* path under the source directory, those whose directory names contain the
\* text of the extension or of the source directory included.
C12_PagePath ==
  last.op = "pagePath" => last.path = ClaimedRoute(last.srcPath)
\* ------------------------------------------------------------------------
\* Failures
\* ------------------------------------------------------------------------

\* C13: buildAll does not complete successfully while a write or a copy it
\* started has failed or is not finished: when buildAll has returned without
\* an error, every file it handed to copy() is at its place in the
\* destination and no copy is pending.
C13_BuildFailsWithItsOutput ==
  (last.op = "buildAll" /\ last.ok)
  => \A q \in last.copied :
       /\ [from |-> q, to |-> OutPath(q)] \notin copies
       /\ OutPath(q) \in DOMAIN fs
       /\ q \in DOMAIN fs => fs[OutPath(q)] = fs[q]

\* Whether the page p registered at the route r was loaded from a file that
\* is there no more.
SourceDeleted(p, r) == pagePath(p.src) = r /\ p.src \notin DOMAIN fs

\* C14: a NotFound condition is not fatal to rebuild or to a request of the
\* dev server: a route that is not registered gives null and 404, a missing
\* layout file gives the passthrough layout, and a registered route whose
\* source file was deleted after it was loaded does not make rebuild raise
\* an error.
C14_NotFoundNotFatal ==
  /\ (last.op = "rebuild" /\ last.route \notin DOMAIN last.before) => last.kind = "null"
  /\ (last.op = "rebuild" /\ last.route \in DOMAIN last.before
        /\ SourceDeleted(last.before[last.route], last.route))
       => last.kind # "error"
  /\ (last.op = "request" /\ last.rebuilt /\ last.pathname \in DOMAIN last.before
        /\ SourceDeleted(last.before[last.pathname], last.pathname))
       => last.resp.kind # "error"
  /\ LoadedAll =>
       \A q \in Documents :
         (LayoutKey(FrontMatter(fs[q])) = Undefined /\ P_layout \notin DOMAIN fs)
         => pages[pagePath(q)].view.layout = Passthrough

\* ------------------------------------------------------------------------
\* The registry under rebuild
\* ------------------------------------------------------------------------

\* The fields of a page other than its view: src, path and what the front
\* matter spread onto it.
PageFields(p) == [k \in DOMAIN p \ {"view"} |-> p[k]]

\* C18: loadAll is idempotent: when the source tree has not changed, a second
\* run of loadAll leaves the registry with the same routes and, at every
\* route, an entry with the same source path and the same front-matter
\* fields as after the first run.
C18_LoadAllIdempotent ==
  (last.op = "loadAll" /\ last.ok /\ last.again)
  => /\ DOMAIN pages = DOMAIN last.before
     /\ \A r \in DOMAIN pages : PageFields(pages[r]) = PageFields(last.before[r])

\* loadAll ran twice in a row over a tree whose document has front matter.
C18_Witness ==
  /\ last.op = "loadAll"
  /\ last.ok
  /\ last.again
  /\ \E r \in DOMAIN pages : DOMAIN PageFields(pages[r]) # {"src", "path"}

\* C19: rebuild of a registered route changes at most the entry of that
\* route: the registered routes are the same before and after the call and
\* the entry of every other route is as it was.
C19_RebuildFrame ==
  (last.op = "rebuild" /\ last.route \in DOMAIN last.before)
  => /\ DOMAIN pages = DOMAIN last.before
     /\ \A r \in DOMAIN last.before : r # last.route => pages[r] = last.before[r]

\* C20: every entry of the registry is consistent with its key: the path of
\* the page registered at the route r is r, and its src is the file it was
\* loaded from, whose route is r, whatever the front matter of the document
\* contains.
C20_EntryMatchesKey ==
  \A r \in DOMAIN pages : pages[r].path = r /\ pagePath(pages[r].src) = r
\* ------------------------------------------------------------------------
\* render on its own
\* ------------------------------------------------------------------------

\* How many children a node of SpecRender has at most.
MaxChildren == 2

\* A node written as an object literal with no children property.
Childless(tag, attrs) ==
  [k |-> "node", tag |-> tag, attrs |-> attrs, children |-> [def |-> FALSE, items |-> <<>>]]

TagNames == {"div", "br"}
AttrSets == {EmptyObj, [title |-> "T"]}

\* The nodes without children: a string, v(tag, attrs) and the object
\* literal {tag, attrs}.
Leaves ==
  {Str(<<"x">>)}
    \cup {v(Lit(t), a, <<>>) : t \in TagNames, a \in AttrSets}
    \cup {Childless(Lit(t), a) : t \in TagNames, a \in AttrSets}

\* The nodes render is given: the leaves, and the nodes v builds over them.
RenderInputs ==
  Leaves \cup {v(Lit(t), a, cs) : t \in TagNames, a \in AttrSets,
                                 cs \in UNION {[1..n -> Leaves] : n \in 1..MaxChildren}}

InitRender ==
  /\ fs = TreeBare
  /\ pages = <<>>
  /\ modules = <<>>
  /\ dev = FALSE
  /\ serving = FALSE
  /\ copies = {}
  /\ edits = 0
  /\ tasks = <<>>
  /\ marked = 0
  /\ last \in {[op |-> "new", node |-> h] : h \in RenderInputs}

\* render(hyperscript)
Render ==
  /\ last.op = "new"
  /\ last' = [op |-> "render", node |-> last.node, out |-> render(last.node, Global(dev))]
  /\ UNCHANGED <<tasks, marked, fs, pages, modules, dev, serving, copies, edits>>

NextRender == Render

SpecRender == InitRender /\ [][NextRender]_vars

\* The markup the claim gives a node with a literal tag: the self-closing
\* form when it has no children, absent or empty, and the open and close
\* tags around its children when it has at least one.
RECURSIVE ClaimedMarkup(_)
RECURSIVE ClaimedMarkupEach(_)
ClaimedMarkupEach(items) ==
  IF items = <<>> THEN <<>>
  ELSE ClaimedMarkup(Head(items)) \o ClaimedMarkupEach(Tail(items))

ClaimedMarkup(h) ==
  IF h.k = "string" THEN h.s
  ELSE IF ~h.children.def \/ h.children.items = <<>>
  THEN <<"<">> \o OpenTag(h.tag.lit, renderAttrs(h.attrs, 1, <<>>)) \o <<" />">>
  ELSE <<"<">> \o OpenTag(h.tag.lit, renderAttrs(h.attrs, 1, <<>>)) \o <<">">>
         \o ClaimedMarkupEach(h.children.items) \o <<"</", h.tag.lit, ">">>

\* C17: render of a node with a literal tag gives the self-closing form
\* <tag attrs /> when children is absent and when it is an empty array,
\* every node v(tag, attrs) built without child arguments included, and
\* <tag attrs>...</tag> only when there is at least one child.
C17_SelfClosing ==
  last.op = "render" => last.out = ClaimedMarkup(last.node)
\* ------------------------------------------------------------------------
\* Concurrent rebuild calls
\* ------------------------------------------------------------------------
\* The dev server runs the handler of every request as a task of its own:
\* the rebuild calls of several requests are in flight together and take
\* turns at their awaits. A task is a call of rebuild(route) with its
\* locals: pc tells the await it is suspended at,
\*   "layout0"    await this.layout()                         (line 199)
\*   "read"       await Deno.readTextFile(srcPath)            (line 204)
\*   "highlight"  await highlightText(...) in parseMarkdown   (line 47),
\*                and await this.layout(file.attrs.layout) when the loop
\*                is over (line 211)
\*   "assign"     the rest of the case ".md" (lines 212-219)
\*   "import"     await import("file://" + srcPath)           (line 222)
\*   "done"       the call has returned out
\*   "failed"     the call has raised an error

\* How many rebuild calls are made in SpecConc.
MaxTasks == 2

MdC == Md(TRUE, [title |-> "C"], <<Code(<<"y">>, "js"), Text(<<"C">>), Code(<<"z">>, "js")>>)

\* The tree the dev server of SpecConc was started on, and what the author
\* may put in place of its document while the server runs.
TreeConc ==
  [q \in {P_a_md, P_feed, P_layout} |-> IF q = P_a_md THEN MdC ELSE File(<<"A">>)]

ConcDocs == {MdB, MdT}

NewTask(route, src) ==
  [route |-> route, src |-> src, pc |-> "layout0", l0 |-> Passthrough, l1 |-> Passthrough,
   attrs |-> EmptyObj, body |-> <<>>, i |-> 0, ctx |-> <<>>, todo |-> <<>>,
   content |-> <<>>, page |-> NullPage, out |-> <<>>]

\* serve() has loaded the pages and the server listens.
ServingOn(r) ==
  /\ fs = TreeConc
  /\ pages = r.pages
  /\ modules = r.modules
  /\ dev = TRUE
  /\ serving = TRUE
  /\ copies = {}
  /\ edits = 0
  /\ last = [op |-> "serve", ok |-> r.ok]
  /\ tasks = <<>>
  /\ marked = 0

InitConc == ServingOn(loadAll(TreeConc, <<>>, <<>>, FALSE))

\* rebuild(route) up to its first await: the page is looked up (line 249)
\* and loadPage(page.src) is called.
Call(route) ==
  /\ Len(tasks) < MaxTasks
  /\ route \in DOMAIN pages
  /\ tasks' = Append(tasks, NewTask(route, pages[route].src))
  /\ UNCHANGED <<fs, pages, modules, dev, serving, copies, edits, last, marked>>

\* Where loadPage goes after the root layout, by the extension (line 202).
AfterRoot(src) ==
  IF extname(src) = <<".", "m", "d">> THEN "read"
  ELSE IF extname(src) = <<".", "t", "s", "x">> THEN "import"
  ELSE "failed"

\* Line 199: the root layout l is resolved.
RootResolved(t, l) ==
  /\ tasks[t].pc = "layout0"
  /\ modules' = l.modules
  /\ tasks' = [tasks EXCEPT ![t].l0 = l.layout, ![t].pc = AfterRoot(tasks[t].src)]
  /\ UNCHANGED <<fs, pages, dev, serving, copies, edits, last, marked>>

ResolveRoot(t) == RootResolved(t, layout(fs, modules, Undefined))

\* The highlight callback of the call o has counted and recorded the code
\* blocks of a parse that left r.
OwnerRecorded(ts, o, r) ==
  [ts EXCEPT ![o].i = @ + (Len(r.ctx) - Len(ts[o].ctx)), ![o].ctx = r.ctx]

\* The call t has the markup Marked.parse returned, and its loop runs over
\* the keys of its own ctx.
TaskParsed(ts, t, file, content) ==
  [ts EXCEPT ![t].attrs = FrontMatter(file), ![t].body = file.md,
             ![t].content = content, ![t].todo = ts[t].ctx, ![t].pc = "highlight"]

\* Lines 33-43 of parseMarkdown, which run without an await: setOptions
\* leaves the callback of the call o in the options, and Marked.parse calls
\* the callback the options hold.
ParseRecorded(t, o, file, r) ==
  /\ marked' = o
  /\ tasks' = TaskParsed(OwnerRecorded(tasks, o, r), t, file, r.content)

ParseStarted(t, o, file) ==
  ParseRecorded(t, o, file,
                MarkedParse(file.md, tasks[o].i, [content |-> <<>>, ctx |-> tasks[o].ctx]))

\* Lines 204-210: the document is read, its front matter extracted, and
\* parseMarkdown runs up to its first await.
ReadDocument(t) ==
  /\ tasks[t].pc = "read"
  /\ IF ~exists(fs, tasks[t].src) \/ ~fs[tasks[t].src].valid
     THEN tasks' = [tasks EXCEPT ![t].pc = "failed"] /\ marked' = marked
     ELSE ParseStarted(t, Installed(marked, t), fs[tasks[t].src])
  /\ UNCHANGED <<fs, pages, modules, dev, serving, copies, edits, last>>

\* One turn of the loop of lines 44-49.
Highlight(t) ==
  /\ tasks[t].pc = "highlight"
  /\ tasks[t].todo # <<>>
  /\ tasks' = [tasks EXCEPT
                 ![t].content = ReplaceFirst(@, Head(tasks[t].todo).key,
                                            highlightText(Head(tasks[t].todo).code,
                                                          Head(tasks[t].todo).lang)),
                 ![t].todo = Tail(@)]
  /\ UNCHANGED <<fs, pages, modules, dev, serving, copies, edits, last, marked>>

\* Line 211: parseMarkdown has returned and the layout l of the front
\* matter is resolved.
LayoutResolved(t, l) ==
  /\ tasks[t].pc = "highlight"
  /\ tasks[t].todo = <<>>
  /\ modules' = l.modules
  /\ tasks' = [tasks EXCEPT ![t].l1 = l.layout, ![t].pc = "assign"]
  /\ UNCHANGED <<fs, pages, dev, serving, copies, edits, last, marked>>

ResolveLayout(t) == LayoutResolved(t, layout(fs, modules, LayoutKey(tasks[t].attrs)))

\* The call t returns the rendering of the page r.page it has stored.
Returned(t, r) ==
  /\ pages' = r.pages
  /\ modules' = r.modules
  /\ tasks' = [tasks EXCEPT ![t].page = r.page,
                            ![t].out = GeneratorRender(r.page, Global(dev)),
                            ![t].pc = "done"]

\* Lines 212-219 and 253-254.
AssignDocument(t) ==
  /\ tasks[t].pc = "assign"
  /\ Returned(t, LoadMdWith(pages, tasks[t].src, tasks[t].attrs, tasks[t].content,
                            [modules |-> modules, layout |-> tasks[t].l1]))
  /\ UNCHANGED <<fs, dev, serving, copies, edits, last, marked>>

\* Lines 222-228 and 253-254.
TemplateImported(t, r) ==
  /\ tasks[t].pc = "import"
  /\ IF r.ok THEN Returned(t, r)
     ELSE /\ tasks' = [tasks EXCEPT ![t].pc = "failed"]
          /\ UNCHANGED <<pages, modules>>
  /\ UNCHANGED <<fs, dev, serving, copies, edits, last, marked>>

ImportTemplate(t) ==
  TemplateImported(t, LoadTsxWith(pages, tasks[t].src,
                                  [modules |-> modules, layout |-> tasks[t].l0],
                                  Import(fs, modules, tasks[t].src)))

NextConc ==
  \/ \E route \in Routes : Call(route)
  \/ \E t \in DOMAIN tasks : ResolveRoot(t)
  \/ \E t \in DOMAIN tasks : ReadDocument(t)
  \/ \E t \in DOMAIN tasks : Highlight(t)
  \/ \E t \in DOMAIN tasks : ResolveLayout(t)
  \/ \E t \in DOMAIN tasks : AssignDocument(t)
  \/ \E t \in DOMAIN tasks : ImportTemplate(t)
  \/ \E c \in ConcDocs : Edit(P_a_md, c)
  \/ Remove(P_a_md)

SpecConc == InitConc /\ [][NextConc]_vars

\* The page a call suspended at its last step is about to store, built from
\* its own locals.
PageInHand(t) ==
  IF tasks[t].pc = "assign"
  THEN MdPage(tasks[t].src, pagePath(tasks[t].src), tasks[t].l1,
              Delete(tasks[t].attrs, "layout"), tasks[t].content)
  ELSE TsxPage(tasks[t].src, pagePath(tasks[t].src),
               ModuleDefault(tasks[t].src, Import(fs, modules, tasks[t].src).ver),
               tasks[t].l0)

\* The entry of route r after a step is the page in the hand of a call that
\* was at its storing step.
StoredWhole(r) ==
  \E t \in DOMAIN tasks :
    /\ tasks[t].pc \in {"assign", "import"}
    /\ pagePath(tasks[t].src) = r
    /\ pages'[r] = PageInHand(t)

AtomicStep ==
  /\ DOMAIN pages \subseteq DOMAIN pages'
  /\ \A r \in DOMAIN pages' :
       \/ r \in DOMAIN pages /\ pages'[r] = pages[r]
       \/ StoredWhole(r)
  /\ Cardinality({r \in DOMAIN pages' : r \notin DOMAIN pages \/ pages'[r] # pages[r]}) <= 1

\* C15: under every interleaving of concurrent rebuild calls at their
\* awaits, each step leaves every route of the registry with either the
\* page it held before the step, untouched, or the complete page a call
\* built from its own locals; no route is lost, and a step replaces at most
\* one entry.
C15_AtomicReplacement == [][AtomicStep]_vars

\* Two calls for one route hold different versions of the document: one has
\* stored its page and returned, the other is about to store.
C15_Witness ==
  \E t1, t2 \in DOMAIN tasks :
    /\ tasks[t1].route = tasks[t2].route
    /\ tasks[t1].pc = "done"
    /\ tasks[t2].pc = "assign"
    /\ tasks[t1].body # tasks[t2].body
    /\ pages[tasks[t1].route] = tasks[t1].page
    /\ PageInHand(t2) # tasks[t1].page

\* What a call of parseMarkdown on its own records for a body.
RecordedAlone(body) == MarkedParse(body, 0, [content |-> <<>>, ctx |-> <<>>]).ctx

\* C16: with several parseMarkdown calls in flight, every call has counted
\* and recorded exactly the code blocks of its own body, from zero, the
\* placeholders it still has to substitute are its own, and the markup it
\* returns is the markup the call returns when it runs alone.
C16_OwnContext ==
  \A t \in DOMAIN tasks :
    tasks[t].pc \in {"highlight", "assign", "done"} /\ AfterRoot(tasks[t].src) = "read" =>
      /\ tasks[t].ctx = RecordedAlone(tasks[t].body)
      /\ tasks[t].i = Len(tasks[t].ctx)
      /\ \E n \in 0..Len(tasks[t].ctx) :
           tasks[t].todo = SubSeq(tasks[t].ctx, n + 1, Len(tasks[t].ctx))
      /\ tasks[t].pc \in {"assign", "done"} =>
           tasks[t].content = parseMarkdown(tasks[t].body)

\* Two calls with different bodies are both suspended in the loop over
\* their placeholders.
C16_Witness ==
  \E t1, t2 \in DOMAIN tasks :
    /\ tasks[t1].pc = "highlight" /\ tasks[t2].pc = "highlight"
    /\ tasks[t1].todo # <<>> /\ tasks[t2].todo # <<>>
    /\ tasks[t1].body # tasks[t2].body
    /\ marked = t2 /\ t1 # t2
====
